---- MODULE Spec2Model ----
(***************************************************************************)
(* A model of DiagnosticsTransport (src/index.js): the bounded item        *)
(* buffer, the flush scheduler and the asynchronous send of a batch, and   *)
(* the parts of the record normalisation done by log() that decide the     *)
(* level, the exception and whether the call returns.                      *)
(*                                                                         *)
(* JavaScript values are tagged records; a JavaScript string is a record   *)
(* holding the sequence of its characters, so that indexOf and substring   *)
(* are computed as the engine computes them.  A JavaScript object is a     *)
(* function from its own keys to values.                                   *)
(***************************************************************************)
EXTENDS Integers, Sequences, FiniteSets, TLC

VARIABLES bufferSize, itemBuffer, batches, immediates, emitted, nCalls,
          appended, evicted, lastCall, fr

vars == <<bufferSize, itemBuffer, batches, immediates, emitted, nCalls,
          appended, evicted, lastCall, fr>>

(***************************************************************************)
(* Bounds of the model.                                                    *)
(***************************************************************************)
MaxBufferSize == 2
MaxCalls == 3
MaxNormCalls == 1
MaxAliases == 2
MaxStackLen == 3

DefaultBufferSize == 5000

(***************************************************************************)
(* JavaScript values.                                                      *)
(***************************************************************************)
Undefined == [t |-> "undefined"]
Null == [t |-> "null"]
\* A string whose characters the code inspects: the sequence of its characters.
Str(s) == [t |-> "string", v |-> s]
\* A string the code only compares or passes on, kept whole.
Tok(w) == [t |-> "string", w |-> w]
Num(n) == [t |-> "number", n |-> n]
ErrorValue(message, code, stack) ==
    [t |-> "Error", message |-> message, code |-> code, stack |-> stack]

IsString(x) == x.t = "string"
InstanceOfError(x) == x.t = "Error"

\* ToBoolean: undefined, null, "", 0 are falsy; everything else is truthy.
Truthy(x) ==
    CASE x.t = "undefined" -> FALSE
      [] x.t = "null" -> FALSE
      [] x.t = "string" -> IF "v" \in DOMAIN x THEN Len(x.v) > 0 ELSE x.w # ""
      [] x.t = "number" -> x.n # 0
      [] OTHER -> TRUE

\* a || b
OrElse(a, b) == IF Truthy(a) THEN a ELSE b

\* x != null (loose): false for null and undefined only.
NotLooselyNull(x) == x.t # "null" /\ x.t # "undefined"

NL == "\n"

RECURSIVE IndexFrom(_, _, _)
IndexFrom(s, c, i) ==
    IF i > Len(s) THEN -1
    ELSE IF s[i] = c THEN i - 1
    ELSE IndexFrom(s, c, i + 1)

\* String.prototype.indexOf(c) for a one-character c: 0-based, -1 if absent.
indexOf(s, c) == IndexFrom(s, c, 1)

Clamp(n, len) == IF n < 0 THEN 0 ELSE IF n > len THEN len ELSE n

\* String.prototype.substring(a, b): both ends clamped to [0, length] and
\* swapped when a > b.
substring(s, a, b) ==
    LET ca == Clamp(a, Len(s))
        cb == Clamp(b, Len(s))
        lo == IF ca <= cb THEN ca ELSE cb
        hi == IF ca <= cb THEN cb ELSE ca
    IN  SubSeq(s, lo + 1, hi)

\* String.prototype.substring(a): to the end of the string.
substringFrom(s, a) == substring(s, a, Len(s))

(***************************************************************************)
(* FieldResolver.  An object is a function from its own keys to values;    *)
(* item[key] of a key the object does not own is undefined.                *)
(***************************************************************************)
Get(item, key) == IF key \in DOMAIN item THEN item[key] ELSE Undefined

Delete(item, key) == [k \in (DOMAIN item) \ {key} |-> item[k]]

EmptyObject == [k \in {} |-> Undefined]

\* Object.assign({}, src) followed by one property assignment.
Assign(item, key, value) ==
    [k \in (DOMAIN item) \cup {key} |-> IF k = key THEN value ELSE item[k]]

\* getValueOrDefault: the value and the object as the call leaves it.
getValueOrDefault(item, key, defaultValue) ==
    IF Get(item, key) # Undefined
    THEN [value |-> Get(item, key), item |-> Delete(item, key)]
    ELSE [value |-> defaultValue, item |-> item]

RECURSIVE getFieldValueLoop(_, _, _)
getFieldValueLoop(item, array, i) ==
    IF i > Len(array) THEN [value |-> Null, item |-> item]
    ELSE IF Get(item, array[i]) # Undefined
         THEN [value |-> Get(item, array[i]), item |-> Delete(item, array[i])]
         ELSE getFieldValueLoop(item, array, i + 1)

RECURSIVE getFieldValueAllLoop(_, _, _, _)
getFieldValueAllLoop(item, array, i, found) ==
    IF i > Len(array) THEN [value |-> found, item |-> item]
    ELSE IF Get(item, array[i]) # Undefined
         THEN getFieldValueAllLoop(Delete(item, array[i]), array, i + 1,
                  IF found = Null THEN Get(item, array[i]) ELSE found)
         ELSE getFieldValueAllLoop(item, array, i + 1, found)

\* A faulty getFieldValue: it goes on after the first hit and deletes
\* every alias that is present.
getFieldValueDeletesAll(item, array) ==
    getFieldValueAllLoop(item, array, 1, Null)

\* getFieldValue: the value returned and the object as the call leaves it.
getFieldValue(item, array) == getFieldValueLoop(item, array, 1)

(***************************************************************************)
(* Configuration: the alias lists the constructor defaults to.             *)
(***************************************************************************)
messageField == <<"message", "msg">>
exceptionField == <<"exception">>

\* this.code: the transport has no such property.
thisCode == Undefined

(***************************************************************************)
(* LevelMapper: the switch of log().                                       *)
(***************************************************************************)
mapLevel(level) ==
    CASE level = Tok("silly") -> Tok("InfoDetail")
      [] level = Tok("debug") -> Tok("Debug")
      [] level = Tok("verbose") -> Tok("Verbose")
      [] level = Tok("info") -> Tok("InfoBasic")
      [] level = Tok("warn") -> Tok("Warning")
      [] level = Tok("error") -> Tok("Error")
      [] OTHER -> level

(***************************************************************************)
(* ExceptionExtractor.                                                     *)
(***************************************************************************)
Exception(type, message, source, stackTrace) ==
    [t |-> "object", exceptionType |-> type, message |-> message,
     source |-> source, stackTrace |-> stackTrace]

\* The exception built from an Error: the type is the text before the first
\* colon when the colon comes before the first line break, the stack trace
\* is the text after the first line break.
exceptionFromError(err, type) ==
    IF Truthy(err.stack)
    THEN LET fLineIdx == indexOf(err.stack.v, NL)
             typeIdx == indexOf(err.stack.v, ":")
         IN  Exception(IF typeIdx < fLineIdx
                       THEN Str(substring(err.stack.v, 0, typeIdx))
                       ELSE type,
                       OrElse(err.message, Null), OrElse(err.code, Null),
                       Str(substringFrom(err.stack.v, fLineIdx + 1)))
    ELSE Exception(type, OrElse(err.message, Null), OrElse(err.code, Null),
                   OrElse(err.stack, Null))

DefaultStackMessage == Tok("Error: An exception has been thrown.")

\* The message taken from the 'stack' field: stack.indexOf or
\* stack.substring throws for a value that is no string, the catch keeps
\* the default.
stackMessage(stack) ==
    IF IsString(stack)
    THEN Str(substring(stack.v, 0, indexOf(stack.v, NL)))
    ELSE DefaultStackMessage

\* The stack trace taken from the 'stack' field.
stackRest(stack) ==
    IF IsString(stack)
    THEN Str(substringFrom(stack.v, indexOf(stack.v, NL) + 1))
    ELSE stack

\* item.exception after the 'stack' field was looked at.
exceptionWithStack(exception, stack) ==
    IF NotLooselyNull(stack) /\ ~Truthy(exception)
    THEN Exception(Null, stackMessage(stack), OrElse(thisCode, Null),
                   stackRest(stack))
    ELSE exception

(***************************************************************************)
(* BufferedQueue and FlushScheduler, as functions of the state they read.  *)
(***************************************************************************)
Ids(q) == {q[i].id : i \in 1..Len(q)}

\* A faulty appendToBuffer: no eviction when the queue is full.
appendToBufferNoEvict(q, size, item) == Append(q, item)

\* A faulty appendToBuffer: the oldest item is evicted (shift).
appendToBufferEvictsOldest(q, size, item) ==
    IF Len(q) >= size THEN Append(SubSeq(q, 2, Len(q)), item)
    ELSE Append(q, item)

\* appendToBuffer: pop() drops the last element of a full queue, push() adds
\* the item at the tail.
appendToBuffer(q, size, item) ==
    IF Len(q) >= size THEN Append(SubSeq(q, 1, Len(q) - 1), item)
    ELSE Append(q, item)

\* A batch handed to zlib.gzip: the request is made by the gzip callback.
Batch(payload) == [payload |-> payload, state |-> "gzip", requests |-> 0]

\* A faulty flushBuffers: slice() for splice(), the queue keeps its items.
flushBuffersKeepsQueue(q, bs) ==
    IF Len(q) > 0
    THEN [itemBuffer |-> q, batches |-> Append(bs, Batch(q))]
    ELSE [itemBuffer |-> q, batches |-> bs]

\* A faulty flushBuffers: no test of the length, an empty batch is sent.
flushBuffersSendsEmpty(q, bs) ==
    [itemBuffer |-> <<>>, batches |-> Append(bs, Batch(q))]

\* A faulty flushBuffers: only a queue of two or more items is flushed.
flushBuffersNeedsTwo(q, bs) ==
    IF Len(q) > 1
    THEN [itemBuffer |-> <<>>, batches |-> Append(bs, Batch(q))]
    ELSE [itemBuffer |-> q, batches |-> bs]

\* flushBuffers: splice(0, length) detaches the whole queue as the payload;
\* nothing happens on an empty queue.
flushBuffers(q, bs) ==
    IF Len(q) > 0
    THEN [itemBuffer |-> <<>>, batches |-> Append(bs, Batch(q))]
    ELSE [itemBuffer |-> q, batches |-> bs]

\* A faulty test: the level is compared before it was mapped.
shouldFlushUnmapped(item) == item.level = Tok("error")

\* The test of log() on the item it appended: item.level === 'Error'.
shouldFlush(item) == item.level = Tok("Error")

(***************************************************************************)
(* log(): the record the call works on, and the item it builds.  A call is *)
(* [form, info, level, message, extra, callback]: form "record" is         *)
(* log(info, callback), form "legacy" is log(level, message, extra,        *)
(* callback); callback says whether a function was given.                  *)
(***************************************************************************)
logData(call) ==
    IF call.form = "legacy"
    THEN LET base == IF call.extra.t = "Error"
                     THEN Assign(EmptyObject, "exception", call.extra)
                     ELSE EmptyObject
         IN  Assign(Assign(base, "level", call.level),
                    "message", call.message)
    ELSE call.info

\* The format detector calls item.message.trim() on every truthy message: a
\* TypeError for a message that is no string.
logThrows(data) ==
    LET level == getValueOrDefault(data, "level", Tok("Info"))
        message == getFieldValue(level.item, messageField).value
    IN  Truthy(message) /\ ~IsString(message)

\* The level and the exception of the item log() builds.  The fields are
\* taken off the record in the order of the code; the other getters name
\* keys the records of the model do not carry.
logItem(id, data) ==
    LET level == getValueOrDefault(data, "level", Tok("Info"))
        message == getFieldValue(level.item, messageField)
        exception == getFieldValue(message.item, exceptionField)
        converted == IF InstanceOfError(exception.value)
                     THEN exceptionFromError(exception.value, Null)
                     ELSE exception.value
        stack == getValueOrDefault(exception.item, "stack", Null)
    IN  [id |-> id,
         level |-> mapLevel(level.value),
         exception |-> exceptionWithStack(converted, stack.value)]

\* logException(): getFieldValue(info, ...) reads a property of info, a
\* TypeError when info is null or undefined.
logExceptionThrows(info) == info = Null \/ info = Undefined

logExceptionItem(id, err) ==
    [id |-> id,
     level |-> Tok("Error"),
     exception |-> IF InstanceOfError(err)
                   THEN exceptionFromError(err, Tok("error"))
                   ELSE Undefined]

(***************************************************************************)
(* The state.                                                              *)
(*   bufferSize  this.bufferSize                                           *)
(*   itemBuffer  this.itemBuffer                                           *)
(*   batches     every payload flushBuffers detached, with the state of    *)
(*               its send: "gzip" (compressing), "inflight" (request       *)
(*               written and ended), "failed" (error event)                *)
(*   immediates  the setImmediate callbacks not yet run, by call           *)
(*   emitted     the calls re-emitted, in the order of the emits           *)
(*   nCalls      the number of log and logException calls made             *)
(*   appended    the ids of the items passed to appendToBuffer, in order   *)
(*   evicted     the ids of the items pop() dropped                        *)
(*   lastCall    the last call of log, logException or the timer: what it  *)
(*               did, in order                                             *)
(*   fr          the field resolver called on its own                      *)
(***************************************************************************)
FrIdle == [pc |-> "idle"]

Call(op, id, trace) == [op |-> op, id |-> id, trace |-> trace]

\* The constructor: options.bufferSize || 5000.
constructBufferSize(option) == IF option # 0 THEN option ELSE DefaultBufferSize

\* options.bufferSize: the smallest queue and the largest of the model.
BufferSizeOptions == {1, MaxBufferSize}

Init ==
    /\ \E option \in BufferSizeOptions :
           bufferSize = constructBufferSize(option)
    /\ itemBuffer = <<>>
    /\ batches = <<>>
    /\ immediates = <<>>
    /\ emitted = <<>>
    /\ nCalls = 0
    /\ appended = <<>>
    /\ evicted = {}
    /\ lastCall = Call("constructor", 0, <<>>)
    /\ fr = FrIdle

Opt(cond, event) == IF cond THEN <<event>> ELSE <<>>

log(call) ==
    LET id == nCalls + 1
        data == logData(call)
        item == logItem(id, data)
        queued == appendToBuffer(itemBuffer, bufferSize, item)
        flushed == IF shouldFlush(item) THEN flushBuffers(queued, batches)
                   ELSE [itemBuffer |-> queued, batches |-> batches]
    IN  /\ nCalls < MaxCalls
        /\ nCalls' = id
        /\ immediates' = Append(immediates, id)
        /\ IF logThrows(data)
           THEN /\ lastCall' = Call("log", id, <<"setImmediate", "throw">>)
                /\ UNCHANGED <<itemBuffer, batches, appended, evicted>>
           ELSE /\ itemBuffer' = flushed.itemBuffer
                /\ batches' = flushed.batches
                /\ appended' = Append(appended, id)
                /\ evicted' = evicted \cup (Ids(itemBuffer) \ Ids(queued))
                /\ lastCall' = Call("log", id,
                       <<"setImmediate", "appendToBuffer">>
                       \o Opt(shouldFlush(item), "flushBuffers")
                       \o Opt(call.callback, "callback"))
        /\ UNCHANGED <<bufferSize, emitted, fr>>

logException(info, next, err) ==
    LET id == nCalls + 1
        item == logExceptionItem(id, err)
        queued == appendToBuffer(itemBuffer, bufferSize, item)
        flushed == flushBuffers(queued, batches)
    IN  /\ nCalls < MaxCalls
        /\ nCalls' = id
        /\ IF logExceptionThrows(info)
           THEN /\ lastCall' = Call("logException", id, <<"throw">>)
                /\ UNCHANGED <<itemBuffer, batches, appended, evicted>>
           ELSE /\ itemBuffer' = flushed.itemBuffer
                /\ batches' = flushed.batches
                /\ appended' = Append(appended, id)
                /\ evicted' = evicted \cup (Ids(itemBuffer) \ Ids(queued))
                /\ lastCall' = Call("logException", id,
                       <<"appendToBuffer", "flushBuffers">>
                       \o Opt(next, "callback"))
        /\ UNCHANGED <<bufferSize, immediates, emitted, fr>>

\* The interval timer of the constructor: flushBuffers(self).
TimerTick ==
    LET flushed == flushBuffers(itemBuffer, batches)
    IN  /\ itemBuffer' = flushed.itemBuffer
        /\ batches' = flushed.batches
        /\ lastCall' = Call("timer", 0, <<"flushBuffers">>)
        /\ UNCHANGED <<bufferSize, immediates, emitted, nCalls, appended,
                       evicted, fr>>

\* The setImmediate callback of log(): this.emit.apply(this, arguments).
RunImmediate ==
    /\ immediates # <<>>
    /\ emitted' = Append(emitted, Head(immediates))
    /\ immediates' = Tail(immediates)
    /\ UNCHANGED <<bufferSize, itemBuffer, batches, nCalls, appended,
                   evicted, lastCall, fr>>

\* A faulty error handler: the failed payload is put back in the queue.
requestErrorRequeues(q, bs, b) ==
    [itemBuffer |-> bs[b].payload \o q,
     batches |-> [bs EXCEPT ![b].state = "failed"]]

\* The 'error' handler of the request: console.log, nothing else.
requestError(q, bs, b) ==
    [itemBuffer |-> q, batches |-> [bs EXCEPT ![b].state = "failed"]]

\* The callback of zlib.gzip: one http.request, written and ended.
GzipCallback(b) ==
    /\ batches[b].state = "gzip"
    /\ batches' = [batches EXCEPT ![b].state = "inflight",
                                  ![b].requests = @ + 1]
    /\ UNCHANGED <<bufferSize, itemBuffer, immediates, emitted, nCalls,
                   appended, evicted, lastCall, fr>>

\* The response callback of the request, function(res) {}: it has no body,
\* so a response changes nothing, and the request stays open to an error.
Response(b) ==
    /\ batches[b].state = "inflight"
    /\ UNCHANGED vars

RequestError(b) ==
    /\ batches[b].state = "inflight"
    /\ itemBuffer' = requestError(itemBuffer, batches, b).itemBuffer
    /\ batches' = requestError(itemBuffer, batches, b).batches
    /\ UNCHANGED <<bufferSize, immediates, emitted, nCalls, appended,
                   evicted, lastCall, fr>>

(***************************************************************************)
(* The calls the transport is driven with.                                 *)
(***************************************************************************)
LogCall(form, info, level, message, extra, callback) ==
    [form |-> form, info |-> info, level |-> level, message |-> message,
     extra |-> extra, callback |-> callback]

Levels == {Tok("error"), Tok("Error"), Tok("info")}
Messages == {Tok("m"), Num(42)}

LogCalls ==
    {LogCall("record", [k \in {"level", "message"} |->
                            IF k = "level" THEN l ELSE m],
             Undefined, Undefined, Undefined, cb) :
         l \in Levels, m \in Messages, cb \in BOOLEAN}
    \cup
    {LogCall("legacy", Undefined, l, m, Undefined, cb) :
         l \in Levels, m \in Messages, cb \in BOOLEAN}

SomeError ==
    ErrorValue(Tok("boom"), Undefined, Str(<<"E", ":", "b", NL, "a">>))

Infos == {EmptyObject, Null}
Errs == {Undefined, SomeError}
Nexts == BOOLEAN

Next ==
    \/ \E call \in LogCalls : log(call)
    \/ \E info \in Infos, next \in Nexts : logException(info, next, SomeError)
    \/ TimerTick
    \/ RunImmediate
    \/ \E b \in 1..Len(batches) : GzipCallback(b)
    \/ \E b \in 1..Len(batches) : Response(b)
    \/ \E b \in 1..Len(batches) : RequestError(b)

Spec == Init /\ [][Next]_vars

\* The interval timer keeps firing: it is never cleared.
FairSpec == Spec /\ WF_vars(TimerTick)

(***************************************************************************)
(* The normalisation on its own: one call of log or logException on a      *)
(* record that carries a 'stack' text, an exception, both or neither.      *)
(***************************************************************************)
StackChars == {"a", ":", NL}

RECURSIVE Texts(_)
Texts(n) ==
    IF n = 0 THEN {<<>>}
    ELSE Texts(n - 1) \cup
         {Append(s, c) : s \in {x \in Texts(n - 1) : Len(x) = n - 1},
                         c \in StackChars}

Stacks == {Str(s) : s \in Texts(MaxStackLen)} \cup {Num(7), Undefined}
Exceptions == {Undefined, SomeError, Tok("oops")}

StackInfo(stack, exception) ==
    [k \in {"level", "stack", "exception"} |->
        CASE k = "level" -> Tok("info")
          [] k = "stack" -> stack
          [] OTHER -> exception]

StackCalls ==
    {LogCall("record", StackInfo(st, ex), Undefined, Undefined, Undefined,
             FALSE) : st \in Stacks, ex \in Exceptions}

NormNext ==
    \/ \E call \in StackCalls : nCalls < MaxNormCalls /\ log(call)
    \/ \E err \in Errs :
           nCalls < MaxNormCalls /\ logException(EmptyObject, FALSE, err)
    \/ TimerTick

NormSpec == Init /\ [][NormNext]_vars

(***************************************************************************)
(* The field resolver on its own: getFieldValue applied to any object over *)
(* a few keys and any alias list.                                          *)
(***************************************************************************)
Keys == {"message", "msg", "name"}
FieldValues == {Undefined, Null, Tok("a"), Num(0)}
Objects == UNION {[S -> FieldValues] : S \in SUBSET Keys}

RECURSIVE AliasLists(_)
AliasLists(n) ==
    IF n = 0 THEN {<<>>}
    ELSE AliasLists(n - 1) \cup
         {Append(a, k) : a \in {x \in AliasLists(n - 1) : Len(x) = n - 1},
                         k \in Keys}

FieldInit ==
    /\ bufferSize = constructBufferSize(0)
    /\ itemBuffer = <<>>
    /\ batches = <<>>
    /\ immediates = <<>>
    /\ emitted = <<>>
    /\ nCalls = 0
    /\ appended = <<>>
    /\ evicted = {}
    /\ lastCall = Call("constructor", 0, <<>>)
    /\ \E item \in Objects, array \in AliasLists(MaxAliases) :
           fr = [pc |-> "call", item |-> item, array |-> array]

GetFieldValueCall ==
    /\ fr.pc = "call"
    /\ fr' = [pc |-> "done", item0 |-> fr.item, array |-> fr.array,
              value |-> getFieldValue(fr.item, fr.array).value,
              item |-> getFieldValue(fr.item, fr.array).item]
    /\ UNCHANGED <<bufferSize, itemBuffer, batches, immediates, emitted,
                   nCalls, appended, evicted, lastCall>>

FieldNext == GetFieldValueCall

FieldSpec == FieldInit /\ [][FieldNext]_vars

(***************************************************************************)
(* What the claims are stated with.                                        *)
(***************************************************************************)
Last(q) == q[Len(q)]
Front(q) == SubSeq(q, 1, Len(q) - 1)
Has(trace, event) == \E i \in 1..Len(trace) : trace[i] = event
Count(trace, event) == Cardinality({i \in 1..Len(trace) : trace[i] = event})
IdSeq(q) == [i \in 1..Len(q) |-> q[i].id]

InQueue(id) == Cardinality({i \in 1..Len(itemBuffer) : itemBuffer[i].id = id})
InBatches(id) ==
    Cardinality({p \in (1..Len(batches)) \X (1..MaxCalls) :
                    /\ p[2] <= Len(batches[p[1]].payload)
                    /\ batches[p[1]].payload[p[2]].id = id})
Evicted(id) == IF id \in evicted THEN 1 ELSE 0
AppendedIds == {appended[i] : i \in 1..Len(appended)}

\* A step of log or logException that passed its item to appendToBuffer.
AppendStep == nCalls' = nCalls + 1 /\ appended' = Append(appended, nCalls')
\* The queue that step left for flushBuffers or for the next call.
QueueAfterAppend ==
    IF batches' # batches THEN Last(batches').payload ELSE itemBuffer'

\* C1: in every reachable state the queue holds at most bufferSize items.
C1_QueueBounded == Len(itemBuffer) <= bufferSize

C1_Witness == Len(itemBuffer) = bufferSize /\ evicted # {}

\* C2: every item passed to appendToBuffer is in exactly one place: once in
\* the queue, or evicted, or once in one detached batch.
C2_ExactlyOnePlace ==
    \A id \in AppendedIds : InQueue(id) + InBatches(id) + Evicted(id) = 1

C2_Witness ==
    /\ \E id \in AppendedIds : InQueue(id) = 1
    /\ \E id \in AppendedIds : InBatches(id) = 1
    /\ \E id \in AppendedIds : id \in evicted

\* C3: every call of flushBuffers leaves the queue empty in the same step;
\* the batch it detaches holds the items that were resident, in their order;
\* it starts a send if and only if the queue was not empty.
C3_FlushDetachesAll ==
    [][/\ TimerTick =>
            /\ itemBuffer' = <<>>
            /\ IF itemBuffer # <<>>
               THEN batches' = Append(batches, Batch(itemBuffer))
               ELSE batches' = batches
       /\ (AppendStep /\ Has(lastCall'.trace, "flushBuffers")) =>
            /\ itemBuffer' = <<>>
            /\ Len(batches') = Len(batches) + 1
            /\ Front(batches') = batches
            /\ Last(batches').state = "gzip"
            /\ LET p == Last(batches').payload
               IN  /\ Len(p) >= 1
                   /\ Last(p).id = nCalls'
                   /\ Front(p) = SubSeq(itemBuffer, 1, Len(p) - 1)
                   /\ Len(p) >= Len(itemBuffer)
      ]_vars

C3_Witness ==
    /\ lastCall.op = "timer"
    /\ itemBuffer = <<>>
    /\ batches # <<>>
    /\ Last(batches).state = "gzip"
    /\ Len(Last(batches).payload) = 2
    /\ Last(Last(batches).payload).level # Tok("Error")

\* The level a log call is given.
InputLevel(call) ==
    IF call.form = "legacy" THEN call.level ELSE Get(call.info, "level")

FlushedInCall ==
    /\ itemBuffer' = <<>>
    /\ Len(batches') = Len(batches) + 1
    /\ Last(Last(batches').payload).id = nCalls'
    /\ Last(Last(batches').payload).level = Tok("Error")

NotFlushedInCall ==
    /\ batches' = batches
    /\ itemBuffer' # <<>>
    /\ Last(itemBuffer').id = nCalls'
    /\ Last(itemBuffer').level # Tok("Error")

\* C4: an append of an item of level "Error" is followed by a flush inside
\* the same call: after a log call of level "error" or "Error", and after
\* every logException call, the queue is empty and the item is in a detached
\* batch; a log call of another level flushes nothing.
C4_ErrorFlushesInCall ==
    [][/\ \A call \in LogCalls :
              (/\ AppendStep
               /\ lastCall'.op = "log"
               /\ call.callback = Has(lastCall'.trace, "callback")
               /\ mapLevel(InputLevel(call)) = Last(QueueAfterAppend).level
               /\ log(call)) =>
                  IF InputLevel(call) \in {Tok("error"), Tok("Error")}
                  THEN FlushedInCall
                  ELSE NotFlushedInCall
       /\ \A info \in Infos, next \in Nexts :
              (AppendStep /\ lastCall'.op = "logException"
                   /\ logException(info, next, SomeError)) =>
                  FlushedInCall
      ]_vars

C4_Witness ==
    /\ lastCall.op = "log"
    /\ Has(lastCall.trace, "flushBuffers")
    /\ itemBuffer = <<>>
    /\ batches # <<>>
    /\ Len(Last(batches).payload) = 2
    /\ Last(Last(batches).payload).id = lastCall.id

\* C5: a detached batch gets one send attempt, never a second; a failed
\* batch is not sent again and its items are not put back: the failure
\* leaves the queue as it was.
C5_OneSendNoRequeue ==
    /\ [](\A b \in 1..Len(batches) :
             /\ batches[b].requests <= 1
             /\ batches[b].requests = 0 <=> batches[b].state = "gzip")
    /\ [][\A b \in 1..Len(batches) :
             /\ batches'[b].payload = batches[b].payload
             /\ batches'[b].requests >= batches[b].requests
             /\ batches[b].state = "failed" =>
                    batches'[b] = batches[b]
             /\ (batches[b].state = "inflight"
                    /\ batches'[b].state = "failed") =>
                    /\ itemBuffer' = itemBuffer
                    /\ batches'[b].requests = 1
         ]_vars

C5_Witness ==
    /\ itemBuffer # <<>>
    /\ \E b \in 1..Len(batches) :
           batches[b].state = "failed" /\ batches[b].requests = 1

\* C6: an append to a full queue evicts the tail, the most recently added
\* item, and puts the new item at the tail; bufferSize + 1 appends with no
\* flush leave the first bufferSize - 1 items followed by the last one.
C6_EvictsNewest ==
    /\ []((batches = <<>> /\ Len(appended) > bufferSize) =>
             IdSeq(itemBuffer) =
                 SubSeq(appended, 1, bufferSize - 1)
                     \o <<appended[Len(appended)]>>)
    /\ [][(AppendStep /\ Len(itemBuffer) = bufferSize) =>
             /\ Len(QueueAfterAppend) = bufferSize
             /\ Front(QueueAfterAppend) = Front(itemBuffer)
             /\ Last(QueueAfterAppend).id = nCalls'
             /\ evicted' = evicted \cup {Last(itemBuffer).id}
         ]_vars

C6_Witness ==
    /\ bufferSize >= 2
    /\ batches = <<>>
    /\ Len(appended) = bufferSize + 1
    /\ Len(itemBuffer) = bufferSize

\* C7: for every log call given a callback, in both forms, the callback is
\* invoked exactly once, inside the call, after the append and the flush;
\* the re-emission is not made inside the call but left to a later turn of
\* the loop, once.
C7_CallbackOnceEmitLater ==
    [][\A call \in LogCalls :
           (call.callback /\ lastCall'.op = "log" /\ log(call)) =>
               /\ Count(lastCall'.trace, "callback") = 1
               /\ Last(lastCall'.trace) = "callback"
               /\ Has(Front(lastCall'.trace), "appendToBuffer")
               /\ ~Has(lastCall'.trace, "emit")
               /\ Count(immediates', nCalls') = 1
               /\ Count(emitted', nCalls') = 0
      ]_vars

\* The first line of a text, and what follows it.
FirstLine(s) ==
    IF indexOf(s, NL) = -1 THEN s ELSE SubSeq(s, 1, indexOf(s, NL))
AfterFirstLine(s) ==
    IF indexOf(s, NL) = -1 THEN <<>> ELSE SubSeq(s, indexOf(s, NL) + 2, Len(s))

\* C9: a log call whose record has a 'stack' text and no exception gives
\* the item an exception whose message is the first line of the text, whose
\* stackTrace is the rest and whose source is null, for every text; a
\* resolved exception is not changed by the stack field.
C9_StackFirstLine ==
    [][\A call \in StackCalls :
           (AppendStep /\ lastCall'.op = "log" /\ log(call)
               /\ IsString(Get(call.info, "stack"))) =>
               LET stack == Get(call.info, "stack").v
                   exception == Last(itemBuffer').exception
               IN  IF Get(call.info, "exception") = Undefined
                   THEN /\ exception.message = Str(FirstLine(stack))
                        /\ exception.stackTrace = Str(AfterFirstLine(stack))
                        /\ exception.source = Null
                   ELSE exception =
                            logItem(nCalls', Delete(call.info, "stack")).exception
      ]_vars

\* C8: getFieldValue returns the value of the first alias, in list order,
\* that the record has, and removes that field only; it returns null and
\* removes nothing when the record has none; every other field is left.
C8_FirstAliasOnly ==
    fr.pc = "done" =>
        LET present == {i \in 1..Len(fr.array) :
                            Get(fr.item0, fr.array[i]) # Undefined}
        IN  IF present = {}
            THEN fr.value = Null /\ fr.item = fr.item0
            ELSE LET first == CHOOSE i \in present :
                                  \A j \in present : i <= j
                     key == fr.array[first]
                 IN  /\ fr.value = fr.item0[key]
                     /\ DOMAIN fr.item = (DOMAIN fr.item0) \ {key}
                     /\ \A k \in DOMAIN fr.item : fr.item[k] = fr.item0[k]

C8_Witness ==
    /\ fr.pc = "done"
    /\ Len(fr.array) = 2
    /\ fr.array[1] # fr.array[2]
    /\ Get(fr.item0, fr.array[1]) # Undefined
    /\ Get(fr.item0, fr.array[2]) # Undefined
    /\ fr.value = fr.item0[fr.array[1]]
    /\ Get(fr.item, fr.array[2]) = fr.item0[fr.array[2]]

\* C10: with the interval timer firing, no item stays in the queue for
\* ever: it is evicted by a later append or detached into a batch.
C10_NoItemStaysQueued ==
    \A id \in 1..MaxCalls :
        (id \in Ids(itemBuffer)) ~>
            (\/ id \in evicted
             \/ \E b \in 1..Len(batches) : id \in Ids(batches[b].payload))

C10_Witness ==
    /\ lastCall.op = "timer"
    /\ itemBuffer = <<>>
    /\ batches # <<>>
    /\ \A i \in 1..Len(Last(batches).payload) :
           Last(batches).payload[i].level # Tok("Error")

====
